---- MODULE Spec2Model ----
(***************************************************************************)
(* A model of the first-person map walkthrough: the per-frame character    *)
(* controller (src/src/characterControls.ts, CharacterControls), the map   *)
(* manager (same file, MapManager), the two PhysicsManager variants        *)
(* (src/unnamed/part_000: ghost object, src/unnamed/part_001: bounding     *)
(* boxes) and the page script that wires them (src/src/index.ts).          *)
(*                                                                         *)
(* Units.  Lengths are counted in 1/20 of a world unit (0.05), times in    *)
(* ticks of 0.02 s, speeds in tenths of a world unit per second, angles in *)
(* eighths of a turn (pi/4).  A real number is a pair <<a, b>> standing    *)
(* for (a + b*sqrt(2)) / 4, which is exact for every value the controller  *)
(* computes when the camera looks along a compass direction.               *)
(***************************************************************************)
EXTENDS Integers, Sequences, FiniteSets, TLC

-----------------------------------------------------------------------------
(* Exact arithmetic in Q(sqrt 2), denominator 4.                           *)

Num(n) == <<4 * n, 0>>

Zero == Num(0)

One == Num(1)

HalfSqrt2 == <<0, 2>>

Sqrt2 == <<0, 4>>

RAdd(p, q) == <<p[1] + q[1], p[2] + q[2]>>

RNeg(p) == <<0 - p[1], 0 - p[2]>>

RSub(p, q) == RAdd(p, RNeg(q))

RMul(p, q) == <<(p[1] * q[1] + 2 * p[2] * q[2]) \div 4, (p[1] * q[2] + p[2] * q[1]) \div 4>>

IAbs(n) == IF n < 0 THEN 0 - n ELSE n

\* a + b*sqrt(2) >= 0; the squares are compared only when neither part
\* dominates the other
RNonNeg(p) ==
    IF p[2] = 0 \/ IAbs(p[1]) >= 2 * IAbs(p[2]) THEN p[1] >= 0
    ELSE IF IAbs(p[1]) <= IAbs(p[2]) THEN p[2] >= 0
    ELSE IF p[1] >= 0 THEN p[2] >= 0 \/ p[1] * p[1] >= 2 * p[2] * p[2]
    ELSE p[2] >= 0 /\ 2 * p[2] * p[2] >= p[1] * p[1]

RLeq(p, q) == RNonNeg(RSub(q, p))

RLess(p, q) == ~RLeq(q, p)

RMax(p, q) == IF RLeq(p, q) THEN q ELSE p

RMin(p, q) == IF RLeq(p, q) THEN p ELSE q

-----------------------------------------------------------------------------
(* THREE.Vector3, as far as the controller uses it.                        *)

Vec(x, y, z) == [x |-> x, y |-> y, z |-> z]

VecInt(x, y, z) == Vec(Num(x), Num(y), Num(z))

VAdd(u, v) == Vec(RAdd(u.x, v.x), RAdd(u.y, v.y), RAdd(u.z, v.z))

VSub(u, v) == Vec(RSub(u.x, v.x), RSub(u.y, v.y), RSub(u.z, v.z))

VScale(v, r) == Vec(RMul(v.x, r), RMul(v.y, r), RMul(v.z, r))

LengthSq(v) == RAdd(RAdd(RMul(v.x, v.x), RMul(v.y, v.y)), RMul(v.z, v.z))

\* Vector3.normalize: divideScalar(length() || 1).  The lengths that occur
\* are 0, sqrt(1/2), 1 and sqrt(2).
Normalize(v) ==
    CASE LengthSq(v) = Zero -> v
      [] LengthSq(v) = One -> v
      [] LengthSq(v) = Num(2) -> VScale(v, HalfSqrt2)
      [] LengthSq(v) = <<2, 0>> -> VScale(v, Sqrt2)

\* Vector3.crossVectors(a, b)
CrossVectors(a, b) ==
    Vec(RSub(RMul(a.y, b.z), RMul(a.z, b.y)),
        RSub(RMul(a.z, b.x), RMul(a.x, b.z)),
        RSub(RMul(a.x, b.y), RMul(a.y, b.x)))

\* sin and cos of k eighths of a turn
SinT(k) ==
    CASE k % 8 \in {0, 4} -> Zero
      [] k % 8 \in {1, 3} -> HalfSqrt2
      [] k % 8 = 2 -> One
      [] k % 8 \in {5, 7} -> RNeg(HalfSqrt2)
      [] k % 8 = 6 -> RNeg(One)

CosT(k) == SinT(k + 2)

\* Math.atan2(x, z) of a horizontal unit vector, in eighths of a turn, in
\* (-4, 4]; atan2(0, 0) is 0.
Atan2(x, z) ==
    IF x = Zero /\ z = Zero THEN 0
    ELSE CHOOSE k \in -3..4 : SinT(k + 8) = x /\ CosT(k + 8) = z

Pi == 4

-----------------------------------------------------------------------------
(* Program constants.                                                      *)

\* CharacterControls.walkSpeed = 2.5 and runSpeed = 5.0, in tenths
walkSpeed == 25

runSpeed == 50

\* CharacterControls.cameraHeight = 1.8, in twentieths
cameraHeight == 36

\* the eye height 1.65 that index.ts places the camera rig at
rigHeight == 33

\* the start position (10, 0, 10) of index.ts
startX == 200

startZ == 200

Clips == {"Idle", "Walk", "Run"}

Keys == {"w", "a", "s", "d"}

\* The explored region: the camera rig stays where ArenaFrames frames can
\* take it from the start position.
ArenaFrames == 1

\* The frame times explored, in ticks: MaxDelta is 0.1 s.
MaxDelta == 5

\* the calls of generateFallbackMap() in a loading phase
MaxFallbackCalls == 2

Deltas == {MaxDelta}

VARIABLES
    \* CharacterControls
    modelPos,        \* model.position (feet)
    modelRotY,       \* model.rotation.y
    toggleRun,
    currentAction,
    active,          \* per clip: played and not faded out since
    animCalls,       \* the AnimationAction calls made by the step just taken
    \* camera and PointerLockControls
    ctrlPos,         \* controls.getObject().position (eye)
    camYaw,          \* heading of the camera, eighths of a turn from +Z towards +X
    camPitch,        \* 0: level, 1: looking up by an eighth of a turn
    isLocked,
    \* index.ts
    keysPressed,
    characterLoaded, \* characterControls is defined exactly when this is set
    mapLoaded,
    charReq,         \* the Soldier.glb request: "pending", "done" or "failed"
    mapReq,          \* the skeld-map.glb request: "pending", "done" or "failed"
    timer,           \* the 10 s timeout: "armed" or "fired"
    links,           \* the managers handed to characterControls
    frameScheduled,  \* requestAnimationFrame(animate) is pending
    lastTest,        \* what the collision test of the step just taken logged
    lastFrame,       \* what animate() did, and the camera rig, currentAction and
                     \* active clips it started from, when the step just taken was a frame
    \* MapManager
    isLoaded,
    mapModel,
    collisionMeshes,
    sceneMaps,       \* the map models added to the scene, in order
    fallbackCalls,   \* the generateFallbackMap() calls so far
    onLoadCallback,  \* MapManager.onLoadCallback, "null" or a callback
    registered,      \* the callbacks handed to MapManager.onLoad so far
    callbackRuns,    \* how often each callback has been invoked
    \* PhysicsManager
    physicsVariant,  \* the PhysicsManager the page is built with: "ghost" or "bbox"
    physInit,        \* init(): "pending", "ok" (isInitialized) or "failed"
    world,           \* the bodies added to the physics world, in order
    rigidBodies,     \* the rigidBodies map: mesh -> its latest body
    ghost            \* characterGhostObject exists

ccVars == <<modelPos, modelRotY, toggleRun, currentAction, active>>

camVars == <<ctrlPos, camYaw, camPitch, isLocked>>

pageVars == <<keysPressed, characterLoaded, mapLoaded, charReq, mapReq, timer, links, frameScheduled>>

cbVars == <<onLoadCallback, registered, callbackRuns>>

mapVars == <<isLoaded, mapModel, collisionMeshes, sceneMaps, fallbackCalls, cbVars>>

physVars == <<physicsVariant, physInit, world, rigidBodies, ghost>>

logVars == <<animCalls, lastTest, lastFrame>>

vars == <<ccVars, camVars, pageVars, mapVars, physVars, logVars>>

\* the step makes no AnimationAction call, runs no collision test, no frame
NoFrame == [delta |-> 0, steps |-> << >>, stepError |-> "none", mixer |-> << >>, queries |-> 0, from |-> << >>, model |-> << >>]

noCalls == animCalls' = << >>

noTest == lastTest' = "none"

noFrame == lastFrame' = NoFrame

logged(hit) == IF hit THEN "hit" ELSE "clear"

-----------------------------------------------------------------------------
(* CharacterControls (src/src/characterControls.ts, lines 5-161).          *)

\* camera.getWorldDirection: the unit vector the camera looks along
getWorldDirection(yaw, pitch) ==
    IF pitch = 0
    THEN Vec(SinT(yaw), Zero, CosT(yaw))
    ELSE Vec(RMul(SinT(yaw), HalfSqrt2), HalfSqrt2, RMul(CosT(yaw), HalfSqrt2))

\* a faulty variant in which S and D override W and A instead of cancelling
moveDirectionOverride(keys) ==
    Vec(Num(IF "d" \in keys THEN 1 ELSE IF "a" \in keys THEN -1 ELSE 0),
        Zero,
        Num(IF "s" \in keys THEN 1 ELSE IF "w" \in keys THEN -1 ELSE 0))

\* lines 81-86: the raw intent from the held keys
moveDirection(keys) ==
    Vec(Num((IF "d" \in keys THEN 1 ELSE 0) - (IF "a" \in keys THEN 1 ELSE 0)),
        Zero,
        Num((IF "s" \in keys THEN 1 ELSE 0) - (IF "w" \in keys THEN 1 ELSE 0)))

\* lines 88-92: the camera direction flattened to the horizontal plane
cameraDirection(yaw, pitch) ==
    LET d == getWorldDirection(yaw, pitch)
    IN  Normalize(Vec(d.x, Zero, d.z))

\* lines 95-96: the model faces opposite to the camera
cameraAngle(dir) == Atan2(dir.x, dir.z)

Facing(dir) == cameraAngle(dir) + Pi

\* line 99
isMoving(md) == LengthSq(md) # Zero

\* line 119
speed(run) == IF run THEN runSpeed ELSE walkSpeed

\* a faulty variant: the run toggle alone starts the Run clip
playAnyKey(md, run) ==
    IF md # Vec(Zero, Zero, Zero) \/ run THEN (IF run THEN "Run" ELSE "Walk") ELSE "Idle"

\* lines 101-103
play(md, run) == IF isMoving(md) THEN (IF run THEN "Run" ELSE "Walk") ELSE "Idle"

\* line 110
cameraRight(dir) == Normalize(CrossVectors(Vec(Zero, One, Zero), dir))

\* speed * delta, in twentieths of a unit (tenths/s * ticks of 0.02 s / 25)
Stride(run, delta) == (speed(run) * delta) \div 25

\* a faulty variant that normalises neither the intent nor the sum
moveVectorRaw(md, dir, run, delta) ==
    LET v == VAdd(VScale(dir, RNeg(md.z)), VScale(cameraRight(dir), md.x))
    IN  VScale(v, Num(Stride(run, delta)))

\* lines 106-120: the displacement of a moving frame
moveVector(md, dir, run, delta) ==
    LET n == Normalize(md)
        v == VAdd(VScale(dir, RNeg(n.z)), VScale(cameraRight(dir), n.x))
    IN  VScale(Normalize(v), Num(Stride(run, delta)))

\* lines 127-129 and 145-147: the model stands under the camera rig
feetUnder(rig) == Vec(rig.x, RSub(rig.y, Num(cameraHeight)), rig.z)

\* lines 63-71: the camera rig sits at eye height over the model
updateControlsPosition(model) == Vec(model.x, RAdd(model.y, Num(cameraHeight)), model.z)

\* a faulty switch that never fades the old clip out
switchCallsNoFadeOut(cur, next) ==
    IF cur # next
    THEN << <<"reset", next>>, <<"fadeIn", next>>, <<"play", next>> >>
    ELSE << >>

\* a faulty switch that fades out the new clip instead of the old one
switchCallsFadesNew(cur, next) ==
    IF cur # next
    THEN << <<"fadeOut", next>>, <<"reset", next>>, <<"fadeIn", next>>, <<"play", next>> >>
    ELSE << >>

\* lines 133-141: the calls made on the animation actions
switchCalls(cur, next) ==
    IF cur # next
    THEN << <<"fadeOut", cur>>, <<"reset", next>>, <<"fadeIn", next>>, <<"play", next>> >>
    ELSE << >>

\* the effect of a sequence of AnimationAction calls on the clips
RECURSIVE applyCalls(_, _)
applyCalls(act, calls) ==
    IF calls = << >> THEN act
    ELSE LET c == Head(calls)
             a == CASE c[1] = "play" -> [act EXCEPT ![c[2]] = TRUE]
                    [] c[1] = "fadeOut" -> [act EXCEPT ![c[2]] = FALSE]
                    [] OTHER -> act
         IN  applyCalls(a, Tail(calls))

\* lines 27-61: new CharacterControls(model, mixer, animationsMap, camera, controls, 'Idle')
constructCharacterControls ==
    /\ currentAction' = "Idle"
    /\ toggleRun' = TRUE
    /\ animCalls' = << <<"play", "Idle">> >>
    /\ active' = applyCalls(active, animCalls')
    /\ modelPos' = VecInt(startX, 0, startZ)
    /\ modelRotY' = 0
    /\ ctrlPos' = updateControlsPosition(modelPos')

\* a faulty variant that switches running on and never off
switchRunToggleOn == toggleRun' = TRUE

\* lines 73-75
switchRunToggle == toggleRun' = ~toggleRun

\* lines 79-141: update() with the pointer locked
updateLocked(delta, keys) ==
    LET md == moveDirection(keys)
        dir == cameraDirection(camYaw, camPitch)
        next == play(md, toggleRun)
        rig == IF isMoving(md)
               THEN VAdd(ctrlPos, moveVector(md, dir, toggleRun, delta))
               ELSE ctrlPos
    IN  /\ modelRotY' = Facing(dir)
        /\ ctrlPos' = rig
        /\ modelPos' = IF isMoving(md) THEN feetUnder(rig) ELSE modelPos
        /\ animCalls' = switchCalls(currentAction, next)
        /\ active' = applyCalls(active, animCalls')
        /\ currentAction' = next

\* lines 142-156: update() with the pointer free
updateUnlocked ==
    /\ modelPos' = feetUnder(ctrlPos)
    /\ modelRotY' = Facing(cameraDirection(camYaw, camPitch))
    /\ UNCHANGED <<ctrlPos, currentAction, active>>
    /\ animCalls' = << >>

\* a faulty update() that does not look at controls.isLocked
updateIgnoresLock(delta, keys) ==
    /\ updateLocked(delta, keys)
    /\ UNCHANGED <<toggleRun, camYaw, camPitch, isLocked>>

\* lines 77-160
update(delta, keys) ==
    /\ IF isLocked THEN updateLocked(delta, keys) ELSE updateUnlocked
    /\ UNCHANGED <<toggleRun, camYaw, camPitch, isLocked>>

-----------------------------------------------------------------------------
(* The meshes.  A collision mesh is the clone addToCollisionMeshes makes   *)
(* (characterControls.ts, lines 302-353): it carries the world position of *)
(* the original and its world scale times mapScale (20).  pos is that      *)
(* position, half the half extents of its world-space bounding box, words  *)
(* the collision patterns (and 'floor') its lower-cased name contains.     *)

Mesh(name, words, x, y, z, hx, hy, hz) ==
    [name |-> name, words |-> words, pos |-> <<x, y, z>>, half |-> <<hx, hy, hz>>]

\* the children of the group generateFallbackMap builds (lines 486-566), in
\* the order they are added; the group stands at mapPosition (10, 0, 10)
FallbackChildren == <<"floor", "wallN", "wallS", "wallE", "wallW", "wallC",
                      "col1", "col2", "col3", "col4", "table",
                      "crate1", "crate2", "crate3", "crate4">>

\* the meshes of the map asset the session is given, in traversal order
GlbChildren == <<"glbWall", "glbFloor", "glbLamp">>

MeshInfo(id) ==
    CASE id = "floor"  -> Mesh("floor", {"floor"}, 400, 0, 400, Num(8000), Zero, Num(8000))
      [] id = "wallN"  -> Mesh("wall", {"wall"}, 400, 40, 200, Num(8000), Num(800), Num(200))
      [] id = "wallS"  -> Mesh("wall", {"wall"}, 400, 40, 600, Num(8000), Num(800), Num(200))
      [] id = "wallE"  -> Mesh("wall", {"wall"}, 0, 40, 400, Num(200), Num(800), Num(4000))
      [] id = "wallW"  -> Mesh("wall", {"wall"}, 800, 40, 400, Num(200), Num(800), Num(4000))
      [] id = "wallC"  -> Mesh("wall", {"wall"}, 400, 30, 400, Num(2000), Num(600), Num(200))
      [] id = "col1"   -> Mesh("wall", {"wall"}, 300, 40, 300, <<0, 1600>>, Num(800), <<0, 1600>>)
      [] id = "col2"   -> Mesh("wall", {"wall"}, 500, 40, 300, <<0, 1600>>, Num(800), <<0, 1600>>)
      [] id = "col3"   -> Mesh("wall", {"wall"}, 300, 40, 500, <<0, 1600>>, Num(800), <<0, 1600>>)
      [] id = "col4"   -> Mesh("wall", {"wall"}, 500, 40, 500, <<0, 1600>>, Num(800), <<0, 1600>>)
      [] id = "table"  -> Mesh("table", {"table"}, 400, 15, 400, Num(1000), Num(300), Num(600))
      [] id = "crate1" -> Mesh("crate", {}, 300, 18, 400, Num(360), Num(360), Num(360))
      [] id = "crate2" -> Mesh("crate", {}, 500, 15, 400, Num(300), Num(300), Num(300))
      [] id = "crate3" -> Mesh("crate", {}, 400, 12, 300, Num(240), Num(240), Num(240))
      [] id = "crate4" -> Mesh("crate", {}, 400, 20, 500, Num(400), Num(400), Num(400))
      [] id = "glbWall"  -> Mesh("Wall_A", {"wall"}, 0, 40, -20, Num(400), Num(40), Num(4))
      [] id = "glbFloor" -> Mesh("Floor", {"floor"}, 0, -1, 0, Num(4000), Num(1), Num(4000))
      [] id = "glbLamp"  -> Mesh("Lamp", {}, 218, 10, 200, Num(4), Num(10), Num(4))

\* mesh.name.toLowerCase().includes('floor')
IsFloorName(id) == "floor" \in MeshInfo(id).words

-----------------------------------------------------------------------------
(* MapManager (src/src/characterControls.ts, lines 165-590).               *)

\* lines 285-297
shouldHaveCollision(id) ==
    MeshInfo(id).words \cap {"wall", "table", "collision", "obstacle", "barrier", "door", "furniture"} # {}

\* lines 207-227: the meshes the traversal of a loaded map adds, one by one
RECURSIVE extractCollisionMeshes(_, _)
extractCollisionMeshes(list, children) ==
    IF children = << >> THEN list
    ELSE extractCollisionMeshes(
             IF shouldHaveCollision(Head(children))
             THEN Append(list, Head(children))
             ELSE Append(list, Head(children)),
             Tail(children))

\* lines 576-580: every mesh of the fallback group but the floor
fallbackCollisionMeshes == SelectSeq(FallbackChildren, LAMBDA id : MeshInfo(id).name # "floor")

\* a faulty generateFallbackMap that empties the list after filling it
generateFallbackMapClearsLast ==
    /\ collisionMeshes' = << >>
    /\ sceneMaps' = Append(sceneMaps, "FallbackMap")
    /\ mapModel' = "FallbackMap"
    /\ isLoaded' = TRUE
    /\ fallbackCalls' = fallbackCalls + 1
    /\ UNCHANGED cbVars

\* a faulty generateFallbackMap that forgets to set isLoaded
generateFallbackMapNotLoaded ==
    /\ collisionMeshes' = fallbackCollisionMeshes
    /\ sceneMaps' = Append(sceneMaps, "FallbackMap")
    /\ mapModel' = "FallbackMap"
    /\ isLoaded' = isLoaded
    /\ fallbackCalls' = fallbackCalls + 1
    /\ UNCHANGED cbVars

\* a faulty generateFallbackMap that keeps the meshes already in the list
generateFallbackMapAppends ==
    /\ collisionMeshes' = collisionMeshes \o fallbackCollisionMeshes
    /\ sceneMaps' = Append(sceneMaps, "FallbackMap")
    /\ mapModel' = "FallbackMap"
    /\ isLoaded' = TRUE
    /\ fallbackCalls' = fallbackCalls + 1
    /\ UNCHANGED cbVars

\* lines 472-589
generateFallbackMap ==
    /\ collisionMeshes' = fallbackCollisionMeshes
    /\ sceneMaps' = Append(sceneMaps, "FallbackMap")
    /\ mapModel' = "FallbackMap"
    /\ isLoaded' = TRUE
    /\ fallbackCalls' = fallbackCalls + 1
    /\ UNCHANGED cbVars

\* the callbacks a client may hand to MapManager.onLoad
Callbacks == {"cb1", "cb2"}

\* callback(): one more invocation of cb
invoke(runs, cb) == [runs EXCEPT ![cb] = @ + 1]

\* lines 196-254: the success callback of the loader, with the call of the
\* registered onLoadCallback (252-254); the onLoad argument is the page's
mapLoadSuccess ==
    /\ mapModel' = "glb"
    /\ collisionMeshes' = extractCollisionMeshes(collisionMeshes, GlbChildren)
    /\ sceneMaps' = Append(sceneMaps, "glb")
    /\ isLoaded' = TRUE
    /\ UNCHANGED fallbackCalls
    /\ callbackRuns' = IF onLoadCallback = "null" THEN callbackRuns ELSE invoke(callbackRuns, onLoadCallback)
    /\ UNCHANGED <<onLoadCallback, registered>>

-----------------------------------------------------------------------------
(* PhysicsManager (src/unnamed/part_000 and src/unnamed/part_001).         *)

isPhysicsInitialized == physInit = "ok"

\* the character's collision radius 0.5 and height 1.8 (index.ts, 627-631)
charRadius == 10

charHeight == 36

PosOf(t) == VecInt(t[1], t[2], t[3])

Abs(r) == IF RNonNeg(r) THEN r ELSE RNeg(r)

\* two boxes, given by centre and half extents, overlap (touching counts)
AabbOverlap(c1, h1, c2, h2) ==
    /\ RLeq(Abs(RSub(c1.x, c2.x)), RAdd(h1[1], h2[1]))
    /\ RLeq(Abs(RSub(c1.y, c2.y)), RAdd(h1[2], h2[2]))
    /\ RLeq(Abs(RSub(c1.z, c2.z)), RAdd(h1[3], h2[3]))

\* part_000, 105-115: the capsule stands on position; its box is radius
\* wide and height tall
ghostCentre(position) == Vec(position.x, RAdd(position.y, Num(charHeight \div 2)), position.z)

ghostHalf == <<Num(charRadius), Num(charHeight \div 2), Num(charRadius)>>

\* the objects the engine reports as overlapping the ghost placed at position
overlappingObjects(position) ==
    {i \in 1..Len(world) :
        AabbOverlap(ghostCentre(position), ghostHalf,
                    PosOf(world[i].at), MeshInfo(world[i].mesh).half)}

\* a faulty createCharacterGhostObject that lacks the initialisation guard
createCharacterGhostObjectUnguarded(g) == TRUE

\* part_000, 88-136: creates the ghost unless physics is not initialised
createCharacterGhostObject(g) == IF ~isPhysicsInitialized THEN g ELSE TRUE

\* a faulty variant that counts floor bodies as collisions
checkGhostCollisionCountsFloor(g, position) ==
    IF ~isPhysicsInitialized \/ ~g THEN FALSE
    ELSE overlappingObjects(position) # {}

\* part_000, 181-230, with the ghost g placed at position
checkGhostCollision(g, position) ==
    IF ~isPhysicsInitialized \/ ~g THEN FALSE
    ELSE \E i \in overlappingObjects(position) : ~world[i].floor

\* part_000, 454-476: the ghost after the call, and the result
ghostAfterCheck == IF ghost THEN ghost ELSE createCharacterGhostObject(ghost)

checkCharacterCollisionGhost(position) == checkGhostCollision(ghostAfterCheck, position)

\* Box3.clampPoint
Clamp(r, lo, hi) == RMax(lo, RMin(hi, r))

closestPoint(position, id) ==
    LET c == PosOf(MeshInfo(id).pos)
        h == MeshInfo(id).half
    IN  Vec(Clamp(position.x, RSub(c.x, h[1]), RAdd(c.x, h[1])),
            Clamp(position.y, RSub(c.y, h[2]), RAdd(c.y, h[2])),
            Clamp(position.z, RSub(c.z, h[3]), RAdd(c.z, h[3])))

DistanceSq(u, v) == LengthSq(VSub(u, v))

\* part_001, 291-358
checkCharacterCollisionBBox(position, radius) ==
    IF ~isPhysicsInitialized THEN FALSE
    ELSE \E id \in DOMAIN rigidBodies :
            /\ ~RLess(Num(25 * radius * radius), DistanceSq(PosOf(MeshInfo(id).pos), position))
            /\ RLess(DistanceSq(position, closestPoint(position, id)), Num(radius * radius))

\* PhysicsManager.checkCharacterCollision of the variant in use
checkCharacterCollision(position) ==
    IF physicsVariant = "ghost"
    THEN checkCharacterCollisionGhost(position)
    ELSE checkCharacterCollisionBBox(position, charRadius)

\* index.ts, 196-200: the bodies made by the page stand 10 units east and south
bodyOffset == 200

\* part_000, 237-347 and part_001, 80-184: the static body made for a mesh,
\* at the mesh's position or moved by the offset the caller gives as the
\* position; only part_000 marks floors (331-334)
staticBody(id, offset, isFloor) ==
    [mesh |-> id,
     at |-> IF offset
            THEN <<MeshInfo(id).pos[1] + bodyOffset, MeshInfo(id).pos[2], MeshInfo(id).pos[3] + bodyOffset>>
            ELSE MeshInfo(id).pos,
     floor |-> physicsVariant = "ghost" /\ (isFloor \/ IsFloorName(id))]

\* a faulty variant without the isInitialized guard
createStaticRigidBodyUnguarded(st, meshes, offset) ==
    [world |-> st.world \o [i \in 1..Len(meshes) |-> staticBody(meshes[i], offset, IsFloorName(meshes[i]))],
     rigidBodies |-> [m \in DOMAIN st.rigidBodies \cup {meshes[i] : i \in 1..Len(meshes)} |->
                         IF \E i \in 1..Len(meshes) : meshes[i] = m
                         THEN staticBody(m, offset, IsFloorName(m)) ELSE st.rigidBodies[m]]]

\* createStaticRigidBody called for each mesh of the list, in order: without
\* an initialised engine every call returns at once (part_000, 243-246);
\* otherwise each adds its body to the world (337) and sets the mesh's
\* entry of the rigidBodies map (340)
createStaticRigidBody(st, meshes, offset) ==
    IF ~isPhysicsInitialized THEN st
    ELSE [world |-> st.world \o [i \in 1..Len(meshes) |->
                                    staticBody(meshes[i], offset, IsFloorName(meshes[i]))],
          rigidBodies |-> [m \in DOMAIN st.rigidBodies \cup {meshes[i] : i \in 1..Len(meshes)} |->
                              IF \E i \in 1..Len(meshes) : meshes[i] = m
                              THEN staticBody(m, offset, IsFloorName(m))
                              ELSE st.rigidBodies[m]]]

\* part_000, 535-540 and part_001, 400-404
createCollisionObjects(st, meshes) == createStaticRigidBody(st, meshes, FALSE)

-----------------------------------------------------------------------------
(* The page script (src/src/index.ts).                                     *)

StartFeet == VecInt(startX, 0, startZ)

StartRig == VecInt(startX, rigHeight, startZ)

physState == [world |-> world, rigidBodies |-> rigidBodies]

\* lines 152-168
checkAllLoaded(st, charL, mapL, meshes) ==
    IF charL /\ mapL /\ isPhysicsInitialized /\ Len(meshes) > 0
    THEN createCollisionObjects(st, meshes)
    ELSE st

\* lines 179-219 and 256-295: a body per collision mesh, 10 units east and south
createMapBodies(st, meshes) ==
    IF isPhysicsInitialized THEN createStaticRigidBody(st, meshes, TRUE) ELSE st

\* characterControls.setMapManager and setPhysicsManager, as index.ts calls
\* them (lines 231-239, 307-315, 346-353)
connectManagers == links' = links \cup {"map"} \cup (IF isPhysicsInitialized THEN {"physics"} ELSE {})

\* a faulty placePlayer that leaves the player where it is
placePlayerKeepsPosition ==
    IF characterLoaded
    THEN UNCHANGED <<modelPos, ctrlPos>> /\ connectManagers
    ELSE UNCHANGED <<modelPos, ctrlPos, links>>

\* lines 221-240 and 297-316: the player is put back at the start
placePlayer ==
    IF characterLoaded
    THEN /\ modelPos' = StartFeet
         /\ ctrlPos' = StartRig
         /\ connectManagers
    ELSE UNCHANGED <<modelPos, ctrlPos, links>>

\* lines 16-23 with PhysicsManager.init: the engine loads, or fails to
InitPhysics ==
    /\ physInit = "pending"
    /\ physInit' \in {"ok", "failed"}
    /\ UNCHANGED <<ccVars, camVars, pageVars, mapVars, physicsVariant, world, rigidBodies, ghost>>
    /\ noCalls /\ noTest /\ noFrame

\* lines 171-241: the map asset arrives
MapLoaded ==
    /\ mapReq = "pending"
    /\ mapReq' = "done"
    /\ mapLoadSuccess
    /\ mapLoaded' = TRUE
    /\ LET st == createMapBodies(
                     checkAllLoaded(physState, characterLoaded, TRUE, collisionMeshes'),
                     collisionMeshes')
       IN  world' = st.world /\ rigidBodies' = st.rigidBodies
    /\ placePlayer
    /\ UNCHANGED <<modelRotY, toggleRun, currentAction, active>>
    /\ UNCHANGED <<camYaw, camPitch, isLocked>>
    /\ UNCHANGED <<keysPressed, characterLoaded, charReq, timer>>
    /\ UNCHANGED <<physicsVariant, physInit, ghost>>
    /\ noCalls /\ noTest /\ noFrame
    /\ UNCHANGED frameScheduled

\* characterControls.ts, lines 417-423 (MapManager.ts, 114-120): a client
\* registers a callback; the field holds one callback only
onLoad(callback) ==
    /\ callback \notin registered
    /\ registered' = registered \cup {callback}
    /\ IF isLoaded
       THEN /\ callbackRuns' = invoke(callbackRuns, callback)
            /\ UNCHANGED onLoadCallback
       ELSE /\ onLoadCallback' = callback
            /\ UNCHANGED callbackRuns
    /\ UNCHANGED <<isLoaded, mapModel, collisionMeshes, sceneMaps, fallbackCalls>>
    /\ UNCHANGED <<ccVars, camVars, pageVars, physVars>>
    /\ noCalls /\ noTest /\ noFrame

\* characterControls.ts, lines 262-266: the map asset fails to load
MapFailed ==
    /\ mapReq = "pending"
    /\ mapReq' = "failed"
    /\ UNCHANGED <<ccVars, camVars, mapVars, physVars>>
    /\ UNCHANGED <<keysPressed, characterLoaded, mapLoaded, charReq, timer, links>>
    /\ noCalls /\ noTest /\ noFrame
    /\ UNCHANGED frameScheduled

\* lines 244-318: the 10 second timer fires
Timeout ==
    /\ timer = "armed"
    /\ timer' = "fired"
    /\ IF ~mapLoaded
       THEN /\ generateFallbackMap
            /\ mapLoaded' = TRUE
            /\ LET st == createMapBodies(
                             checkAllLoaded(physState, characterLoaded, TRUE, collisionMeshes'),
                             collisionMeshes')
               IN  world' = st.world /\ rigidBodies' = st.rigidBodies
            /\ placePlayer
       ELSE UNCHANGED <<mapVars, mapLoaded, world, rigidBodies, modelPos, ctrlPos, links>>
    /\ UNCHANGED <<modelRotY, toggleRun, currentAction, active>>
    /\ UNCHANGED <<camYaw, camPitch, isLocked>>
    /\ UNCHANGED <<keysPressed, characterLoaded, charReq, mapReq>>
    /\ UNCHANGED <<physicsVariant, physInit, ghost>>
    /\ noCalls /\ noTest /\ noFrame
    /\ UNCHANGED frameScheduled

\* lines 322-355: the character asset arrives
CharacterLoaded ==
    /\ charReq = "pending"
    /\ charReq' = "done"
    /\ constructCharacterControls
    /\ characterLoaded' = TRUE
    /\ LET st == checkAllLoaded(physState, TRUE, mapLoaded, collisionMeshes)
       IN  world' = st.world /\ rigidBodies' = st.rigidBodies
    /\ IF mapLoaded THEN connectManagers ELSE UNCHANGED links
    /\ UNCHANGED <<camYaw, camPitch, isLocked>>
    /\ UNCHANGED <<keysPressed, mapLoaded, mapReq, timer>>
    /\ UNCHANGED <<mapVars, physicsVariant, physInit, ghost>>
    /\ noTest /\ noFrame
    /\ UNCHANGED frameScheduled

\* line 322: the loader is given no error callback
CharacterFailed ==
    /\ charReq = "pending"
    /\ charReq' = "failed"
    /\ UNCHANGED <<ccVars, camVars, mapVars, physVars>>
    /\ UNCHANGED <<keysPressed, characterLoaded, mapLoaded, mapReq, timer, links>>
    /\ noCalls /\ noTest /\ noFrame
    /\ UNCHANGED frameScheduled

\* lines 74-80: a click on the instructions locks the pointer
Lock ==
    /\ ~isLocked
    /\ isLocked' = TRUE
    /\ UNCHANGED <<ccVars, ctrlPos, camYaw, camPitch, pageVars, mapVars, physVars>>
    /\ noCalls /\ noTest /\ noFrame

\* lines 83-85: Escape releases it
Unlock ==
    /\ isLocked
    /\ isLocked' = FALSE
    /\ UNCHANGED <<ccVars, ctrlPos, camYaw, camPitch, pageVars, mapVars, physVars>>
    /\ noCalls /\ noTest /\ noFrame

\* line 36: PointerLockControls turns the camera with the mouse while locked
MouseMove(yaw, pitch) ==
    /\ isLocked
    /\ <<yaw, pitch>> # <<camYaw, camPitch>>
    /\ camYaw' = yaw
    /\ camPitch' = pitch
    /\ UNCHANGED <<ccVars, ctrlPos, isLocked, pageVars, mapVars, physVars>>
    /\ noCalls /\ noTest /\ noFrame

\* lines 552-607: the 'd' key also runs the debug collision test
showDebugVisualization ==
    IF isPhysicsInitialized
    THEN /\ lastTest' = logged(checkCharacterCollision(Vec(ctrlPos.x, RSub(ctrlPos.y, Num(rigHeight)), ctrlPos.z)))
         /\ ghost' = IF physicsVariant = "ghost" THEN ghostAfterCheck ELSE ghost
    ELSE noTest /\ UNCHANGED ghost

\* lines 107-114 and 544-549: a movement key goes down
KeyDown(k) ==
    /\ k \notin keysPressed
    /\ keysPressed' = keysPressed \cup {k}
    /\ IF k = "d" THEN showDebugVisualization ELSE noTest /\ UNCHANGED ghost
    /\ UNCHANGED <<ccVars, camVars, mapVars>>
    /\ UNCHANGED <<characterLoaded, mapLoaded, charReq, mapReq, timer, links>>
    /\ UNCHANGED <<physicsVariant, physInit, world, rigidBodies>>
    /\ noCalls /\ noFrame
    /\ UNCHANGED frameScheduled

\* lines 116-118
KeyUp(k) ==
    /\ k \in keysPressed
    /\ keysPressed' = keysPressed \ {k}
    /\ UNCHANGED <<ccVars, camVars, mapVars, physVars>>
    /\ UNCHANGED <<characterLoaded, mapLoaded, charReq, mapReq, timer, links>>
    /\ noCalls /\ noTest /\ noFrame
    /\ UNCHANGED frameScheduled

\* lines 110-113: Shift goes down
KeyDownShift ==
    /\ characterLoaded
    /\ switchRunToggle
    /\ UNCHANGED <<modelPos, modelRotY, currentAction, active>>
    /\ UNCHANGED <<camVars, pageVars, mapVars, physVars>>
    /\ noCalls /\ noTest /\ noFrame

\* lines 610-634: the 'c' key tests the collision at the model's position
testCollisionAtCurrentPosition ==
    /\ characterLoaded
    /\ lastTest' = logged(checkCharacterCollision(modelPos))
    /\ ghost' = IF physicsVariant = "ghost" THEN ghostAfterCheck ELSE ghost
    /\ UNCHANGED <<ccVars, camVars, mapVars>>
    /\ UNCHANGED <<keysPressed, characterLoaded, mapLoaded, charReq, mapReq, timer, links>>
    /\ UNCHANGED <<physicsVariant, physInit, world, rigidBodies>>
    /\ noCalls /\ noFrame
    /\ UNCHANGED frameScheduled

\* The explored region: the positions the camera rig can be moved to from
\* the start position in at most ArenaFrames frames.
Strides ==
    {moveVector(moveDirection(ks), cameraDirection(yaw, 0), run, delta) :
        ks \in {k \in SUBSET Keys : isMoving(moveDirection(k))},
        yaw \in 0..7, run \in BOOLEAN, delta \in Deltas}

RECURSIVE Reach(_)
Reach(n) ==
    IF n = 0 THEN {VecInt(0, 0, 0)}
    ELSE Reach(n - 1) \cup {VAdd(p, d) : p \in Reach(n - 1), d \in Strides}

Arena == Reach(ArenaFrames)

InArena(rig) == Vec(RSub(rig.x, Num(startX)), Zero, RSub(rig.z, Num(startZ))) \in Arena

\* a faulty variant that steps the engine with the frame time as its step
physicsStepsVariable(delta) ==
    IF ~isPhysicsInitialized THEN << >>
    ELSE << [dt |-> delta, maxSubSteps |-> 1, fixedTimeStep |-> delta] >>

\* part_000, 481-523 and part_001, 363-388: the simulation steps of a frame;
\* part_001 leaves the fixed time step to the engine's default, 1/60 s
physicsSteps(delta) ==
    IF ~isPhysicsInitialized THEN << >>
    ELSE IF physicsVariant = "ghost"
         THEN << [dt |-> delta, maxSubSteps |-> 10, fixedTimeStep |-> 60] >>
         ELSE << [dt |-> delta, maxSubSteps |-> 10, fixedTimeStep |-> 60] >>

\* what becomes of an exception the engine throws inside stepSimulation:
\* part_000 catches it (490-522), part_001 has no try around the step (369)
stepOutcome(fault) ==
    IF ~fault THEN "none"
    ELSE IF physicsVariant = "ghost" THEN "caught" ELSE "escaped"

\* a faulty variant that advances the mixer only while the pointer is locked
mixerUpdateLockedOnly(delta) == IF isLocked THEN <<delta>> ELSE << >>

\* characterControls.ts, line 159: the mixer advances by delta
mixerUpdate(delta) == <<delta>>

\* lines 360-374: one frame; fault says the engine throws inside this
\* frame's simulation step.  An exception that escapes PhysicsManager.update
\* ends animate() before characterControls.update, the render and
\* requestAnimationFrame.
animate(delta, fault) ==
    /\ frameScheduled
    /\ fault => isPhysicsInitialized
    /\ IF stepOutcome(fault) = "escaped"
       THEN /\ UNCHANGED <<ccVars, camVars>>
            /\ noCalls
            /\ frameScheduled' = FALSE
       ELSE /\ IF characterLoaded
               THEN update(delta, keysPressed)
               ELSE UNCHANGED <<ccVars, camVars>> /\ noCalls
            /\ frameScheduled' = TRUE
    /\ InArena(ctrlPos')
    /\ lastFrame' = [delta |-> delta,
                     steps |-> IF isPhysicsInitialized THEN physicsSteps(delta) ELSE << >>,
                     stepError |-> stepOutcome(fault),
                     mixer |-> IF characterLoaded /\ stepOutcome(fault) # "escaped"
                               THEN mixerUpdate(delta) ELSE << >>,
                     queries |-> 0,
                     from |-> <<ctrlPos, currentAction, active>>,
                     model |-> modelPos]
    /\ UNCHANGED <<keysPressed, characterLoaded, mapLoaded, charReq, mapReq, timer, links>>
    /\ UNCHANGED <<mapVars, physVars>>
    /\ noTest

\* a frame, with or without an engine exception
Frame == \E delta \in Deltas, fault \in BOOLEAN : animate(delta, fault)

\* a frame in which the engine throws nothing
QuietFrame == \E delta \in Deltas : animate(delta, FALSE)


-----------------------------------------------------------------------------
(* The session, from the moment the page script has run.                   *)

Init ==
    /\ modelPos = StartFeet
    /\ modelRotY = 0
    /\ toggleRun = TRUE
    /\ currentAction = "none"
    /\ active = [c \in Clips |-> FALSE]
    /\ animCalls = << >>
    /\ ctrlPos = StartRig
    /\ camYaw = 4
    /\ camPitch = 0
    /\ isLocked = FALSE
    /\ keysPressed = {}
    /\ characterLoaded = FALSE
    /\ mapLoaded = FALSE
    /\ charReq = "pending"
    /\ mapReq = "pending"
    /\ timer = "armed"
    /\ links = {}
    /\ frameScheduled = TRUE
    /\ lastTest = "none"
    /\ lastFrame = NoFrame
    /\ isLoaded = FALSE
    /\ mapModel = "none"
    /\ collisionMeshes = << >>
    /\ sceneMaps = << >>
    /\ fallbackCalls = 0
    /\ onLoadCallback = "null"
    /\ registered = {}
    /\ callbackRuns = [cb \in Callbacks |-> 0]
    /\ physicsVariant \in {"ghost", "bbox"}
    /\ physInit = "pending"
    /\ world = << >>
    /\ rigidBodies = << >>
    /\ ghost = FALSE

\* In the session the player only walks forward: the other inputs are those
\* of the frame specification below.
Next ==
    \/ InitPhysics
    \/ MapLoaded
    \/ MapFailed
    \/ Timeout
    \/ CharacterLoaded
    \/ CharacterFailed
    \/ Lock
    \/ Unlock
    \/ KeyDown("w")
    \/ KeyUp("w")
    \/ KeyDownShift
    \/ testCollisionAtCurrentPosition
    \/ Frame

Spec == Init /\ [][Next]_vars

-----------------------------------------------------------------------------
(* The loading phase of a session with a client of MapManager.onLoad.      *)

\* generateFallbackMap() is public: a client calls it directly, at most
\* MaxFallbackCalls times in all
callGenerateFallbackMap ==
    /\ fallbackCalls < MaxFallbackCalls
    /\ generateFallbackMap
    /\ UNCHANGED <<ccVars, camVars, pageVars, physVars>>
    /\ noCalls /\ noTest /\ noFrame

NextMap ==
    \/ callGenerateFallbackMap
    \/ InitPhysics
    \/ MapLoaded
    \/ MapFailed
    \/ Timeout
    \/ CharacterLoaded
    \/ \E callback \in Callbacks : onLoad(callback)

SpecMap == Init /\ [][NextMap]_vars

-----------------------------------------------------------------------------
(* The frame loop of a session whose assets have arrived: physics          *)
(* initialised first, then the character, then the map asset (a state the  *)
(* session above reaches), with every keyboard and mouse input.            *)

InitFrame ==
    /\ physicsVariant = "ghost"
    /\ physInit = "ok"
    /\ ghost = FALSE
    /\ LET st == createMapBodies(
                     checkAllLoaded([world |-> << >>, rigidBodies |-> << >>], TRUE, TRUE,
                                    extractCollisionMeshes(<< >>, GlbChildren)),
                     extractCollisionMeshes(<< >>, GlbChildren))
       IN  world = st.world /\ rigidBodies = st.rigidBodies
    /\ isLoaded = TRUE
    /\ mapModel = "glb"
    /\ collisionMeshes = extractCollisionMeshes(<< >>, GlbChildren)
    /\ sceneMaps = <<"glb">>
    /\ fallbackCalls = 0
    /\ onLoadCallback = "null"
    /\ registered = {}
    /\ callbackRuns = [cb \in Callbacks |-> 0]
    /\ characterLoaded = TRUE
    /\ mapLoaded = TRUE
    /\ charReq = "done"
    /\ mapReq = "done"
    /\ timer = "armed"
    /\ links = {"map", "physics"}
    /\ frameScheduled = TRUE
    /\ lastTest = "none"
    /\ lastFrame = NoFrame
    /\ keysPressed = {}
    /\ modelPos = StartFeet
    /\ modelRotY = 0
    /\ toggleRun = TRUE
    /\ currentAction = "Idle"
    /\ active = [c \in Clips |-> c = "Idle"]
    /\ animCalls = << >>
    /\ ctrlPos = StartRig
    /\ camYaw = 4
    /\ camPitch = 0
    /\ isLocked = FALSE

(* Camera orientations the mouse selects: straight down +Z or diagonal,     *)
(* level or pitched; the camera starts looking down -Z.                    *)
Yaws == {0, 3}
Pitches == {0, 1}

NextFrame ==
    \/ Lock
    \/ Unlock
    \/ \E yaw \in Yaws, pitch \in Pitches : MouseMove(yaw, pitch)
    \/ \E k \in Keys : KeyDown(k)
    \/ \E k \in Keys : KeyUp(k)
    \/ KeyDownShift
    \/ QuietFrame

SpecFrame == InitFrame /\ [][NextFrame]_vars

-----------------------------------------------------------------------------
(* Collision sliding, as the specification describes it for update().      *)

\* the collision query for the character standing under a camera-rig position
collidesAt(rig) == checkCharacterCollision(feetUnder(rig))

xOnly(v) == Vec(v.x, Zero, Zero)

zOnly(v) == Vec(Zero, Zero, v.z)

\* the sum of the single-axis moves that are collision-free on their own
slideVector(rig, v) ==
    VAdd(IF collidesAt(VAdd(rig, xOnly(v))) THEN VecInt(0, 0, 0) ELSE xOnly(v),
         IF collidesAt(VAdd(rig, zOnly(v))) THEN VecInt(0, 0, 0) ELSE zOnly(v))

\* the displacement update() intends in the current state
intendedMove(delta) ==
    moveVector(moveDirection(keysPressed), cameraDirection(camYaw, camPitch), toggleRun, delta)

\* a Locked frame with movement keys held whose full move collides
blockedFrame(delta) ==
    /\ animate(delta, FALSE)
    /\ isLocked
    /\ isMoving(moveDirection(keysPressed))
    /\ collidesAt(VAdd(ctrlPos, intendedMove(delta)))

\* C1: in a Locked frame whose full tentative move is reported as colliding,
\* the displacement committed to the camera rig is the sum of exactly those
\* single-axis (X-only, Z-only) moves that are collision-free on their own.
C1_SlidingCommitsFreeAxes ==
    [][\A delta \in Deltas :
          blockedFrame(delta)
              => ctrlPos' = VAdd(ctrlPos, slideVector(ctrlPos, intendedMove(delta)))]_vars

\* C2: in a Locked frame with movement keys held where the full move and
\* both single-axis moves collide, the camera rig and the model stay where
\* they are, and the model still turns to the camera yaw plus pi.
C2_FullyBlockedStaysPut ==
    [][\A delta \in Deltas :
          (/\ blockedFrame(delta)
           /\ collidesAt(VAdd(ctrlPos, xOnly(intendedMove(delta))))
           /\ collidesAt(VAdd(ctrlPos, zOnly(intendedMove(delta)))))
              => /\ ctrlPos' = ctrlPos
                 /\ modelPos' = modelPos
                 /\ modelRotY' = Facing(cameraDirection(camYaw, camPitch))]_vars

-----------------------------------------------------------------------------
(* Physics not initialised; map loading and the fallback map.              *)

\* the session with the browser's guarantee that an armed timer fires
SpecLive == Init /\ [][Next]_vars /\ WF_vars(Timeout)

\* the feet positions the collision query is tried at
ProbePositions == {feetUnder(VAdd(StartRig, d)) : d \in Arena}

\* C3: while the physics engine is not initialised (init pending or failed),
\* checkCharacterCollision answers "no collision" at every position, in both
\* PhysicsManager variants, no test has logged a hit, and no ghost object
\* has been made out of the missing engine.
C3_UninitialisedFailsOpen ==
    physInit # "ok" =>
        /\ lastTest # "hit"
        /\ ghost = FALSE
        /\ \A p \in ProbePositions :
              /\ ~checkCharacterCollisionGhost(p)
              /\ \A radius \in {charRadius, 2 * charRadius} : ~checkCharacterCollisionBBox(p, radius)

\* the collision test key was used on a loaded map while physics had failed
C3_Witness ==
    /\ physInit = "failed"
    /\ lastTest = "clear"
    /\ mapLoaded
    /\ Len(collisionMeshes) > 0

\* C4: when the timer fires with no map loaded, generateFallbackMap runs,
\* once in the whole session, and from then on the collision mesh list is
\* non-empty; when the map has loaded before the timer fires, the fallback
\* map is never generated.
C4_FallbackOnce ==
    /\ [](fallbackCalls <= 1)
    /\ [](fallbackCalls = 1 => timer = "fired" /\ Len(collisionMeshes) > 0)
    /\ [][(Timeout /\ ~mapLoaded) => fallbackCalls' = 1]_vars
    /\ [][(mapLoaded /\ fallbackCalls = 0) => fallbackCalls' = 0]_vars

\* the timer fired while the map request had failed
C4_Witness ==
    /\ timer = "fired"
    /\ mapReq = "failed"
    /\ fallbackCalls = 1
    /\ Len(collisionMeshes) > 0

\* C5: a map request that is pending or has failed leads to a session with a
\* map: mapLoaded is set and MapManager.isMapLoaded() answers true.
C5_MapEventually == (mapReq # "done") ~> (mapLoaded /\ isLoaded)

\* the map request failed and the fallback map stands in for it
C5_Witness ==
    /\ mapReq = "failed"
    /\ mapLoaded
    /\ isLoaded
    /\ mapModel = "FallbackMap"

\* C6 as stated: the timeout handler that generates the fallback map leaves
\* the model and the camera rig where they were.
C6_TimeoutKeepsPosition ==
    [][(Timeout /\ ~mapLoaded) => (modelPos' = modelPos /\ ctrlPos' = ctrlPos)]_vars

\* C6 amended: the timeout handler that generates the fallback map puts a
\* loaded character back at the start, feet at (10, 0, 10) and camera rig at
\* (10, 1.65, 10); with no character loaded, and when the map had loaded
\* before, it moves nothing.
C6_TimeoutResetsToStart ==
    [][Timeout =>
          IF ~mapLoaded /\ characterLoaded
          THEN modelPos' = StartFeet /\ ctrlPos' = StartRig
          ELSE modelPos' = modelPos /\ ctrlPos' = ctrlPos]_vars

\* the fallback map was generated for a loaded character, now at the start
C6_Witness ==
    /\ timer = "fired"
    /\ fallbackCalls = 1
    /\ mapReq # "done"
    /\ characterLoaded
    /\ modelPos = StartFeet
    /\ ctrlPos = StartRig

-----------------------------------------------------------------------------
(* The frame: Unlocked frames, feet under the eyes, animation switching.   *)

\* C7: an update() with the pointer not locked ignores the held keys: the
\* camera rig, currentAction and the playing clip stay as they are, no
\* AnimationAction call and no collision query is made, and the model is put
\* under the camera (same x and z, y lower by cameraHeight) facing the camera
\* yaw plus pi.
C7_UnlockedIgnoresKeys ==
    (lastFrame # NoFrame /\ characterLoaded /\ ~isLocked)
        => /\ <<ctrlPos, currentAction, active>> = lastFrame.from
           /\ animCalls = << >>
           /\ lastFrame.queries = 0
           /\ modelPos = Vec(ctrlPos.x, RSub(ctrlPos.y, Num(cameraHeight)), ctrlPos.z)
           /\ modelRotY = camYaw + Pi

\* a frame has just run with the pointer free and W held
C7_Witness ==
    /\ lastFrame # NoFrame
    /\ characterLoaded
    /\ ~isLocked
    /\ "w" \in keysPressed
    /\ currentAction = "Idle"

\* C8: after every update() the model stands under the camera rig: same x
\* and z, y lower by cameraHeight, also after the handlers have put the
\* player back at the start.
C8_FeetUnderEyes ==
    (lastFrame # NoFrame /\ characterLoaded) => modelPos = feetUnder(ctrlPos)

\* C9: an update() that resolves a clip other than currentAction calls
\* fadeOut on the old clip, then reset, fadeIn and play on the new one, once
\* each, and leaves currentAction naming the new clip; an update() that
\* resolves the current clip makes no call.
C9_SwitchPairsFades ==
    (lastFrame # NoFrame /\ characterLoaded /\ isLocked)
        => LET resolved == play(moveDirection(keysPressed), toggleRun)
               old == lastFrame.from[2]
           IN  /\ currentAction = resolved
               /\ animCalls = IF resolved # old
                              THEN << <<"fadeOut", old>>, <<"reset", resolved>>,
                                      <<"fadeIn", resolved>>, <<"play", resolved>> >>
                              ELSE << >>

\* the frame just run switched from another clip to Run
C9_Witness ==
    /\ lastFrame # NoFrame
    /\ isLocked
    /\ Len(animCalls) = 4
    /\ currentAction = "Run"

\* C10: once the character is constructed, currentAction is Idle, Walk or
\* Run, and exactly one clip is active, the one currentAction names.
C10_OneActiveClip ==
    characterLoaded =>
        /\ currentAction \in Clips
        /\ \A c \in Clips : active[c] <=> (c = currentAction)

\* the character walks after a run toggle, with Walk the only active clip
C10_Witness ==
    /\ characterLoaded
    /\ ~toggleRun
    /\ currentAction = "Walk"
    /\ active = [c \in Clips |-> c = "Walk"]

-----------------------------------------------------------------------------
(* Intent, clip and displacement of a Locked frame.                         *)

\* the held keys cancel on both axes
netZero(keys) == (("w" \in keys) <=> ("s" \in keys)) /\ (("a" \in keys) <=> ("d" \in keys))

\* C11: after a Locked frame the current clip is Idle exactly when the held
\* keys leave no net intent (none held, or only cancelling pairs); otherwise
\* it is Run with the run toggle on and Walk with it off.
C11_ClipFollowsIntent ==
    (lastFrame # NoFrame /\ characterLoaded /\ isLocked)
        => /\ (currentAction = "Idle") <=> netZero(keysPressed)
           /\ ~netZero(keysPressed)
                  => currentAction = (IF toggleRun THEN "Run" ELSE "Walk")

\* a running character comes to Idle in a Locked frame with W and S held
C11_Witness ==
    /\ lastFrame # NoFrame
    /\ characterLoaded
    /\ isLocked
    /\ keysPressed = {"w", "s"}
    /\ toggleRun
    /\ lastFrame.from[2] = "Run"
    /\ currentAction = "Idle"

\* runSpeed * delta, in twentieths of a unit
runStride(delta) == (runSpeed * delta) \div 25

C13_IntentComponents ==
    LET md == moveDirection(keysPressed)
    IN  /\ md.x \in {Num(-1), Zero, Num(1)}
        /\ md.y = Zero
        /\ md.z \in {Num(-1), Zero, Num(1)}
        /\ ("w" \in keysPressed /\ "s" \in keysPressed) => md.z = Zero
        /\ ("a" \in keysPressed /\ "d" \in keysPressed) => md.x = Zero
        /\ (md.z = Num(-1)) <=> ("w" \in keysPressed /\ "s" \notin keysPressed)
        /\ (md.x = Num(1)) <=> ("d" \in keysPressed /\ "a" \notin keysPressed)

\* a Locked frame with all four keys held has left the camera rig in place
C13_Witness ==
    /\ lastFrame # NoFrame
    /\ characterLoaded
    /\ isLocked
    /\ keysPressed = {"w", "a", "s", "d"}
    /\ ctrlPos = lastFrame.from[1]

\* C14: the displacement of one Locked update() has length speed*delta for
\* every non-zero intent, axis-aligned or diagonal, at either speed.
C14_StepLength ==
    (lastFrame # NoFrame /\ characterLoaded /\ isLocked /\ ~netZero(keysPressed))
        => LET step == VSub(ctrlPos, lastFrame.from[1])
               len == Stride(toggleRun, lastFrame.delta)
           IN  LengthSq(step) = Num(len * len)

\* a Locked frame with W and A held has moved the rig diagonally
C14_Witness ==
    /\ lastFrame # NoFrame
    /\ characterLoaded
    /\ isLocked
    /\ keysPressed = {"w", "a"}
    /\ camYaw = 0
    /\ ctrlPos.x # lastFrame.from[1].x
    /\ ctrlPos.z # lastFrame.from[1].z

\* C15: each switchRunToggle() call changes the selected speed from
\* walkSpeed to runSpeed or back, once; a second call therefore selects the
\* speed, and for a moving character the clip, that held before the first.
C15_ToggleFlipsSpeed ==
    [][KeyDownShift =>
          /\ toggleRun' \in BOOLEAN
          /\ speed(toggleRun') # speed(toggleRun)
          /\ {speed(toggleRun), speed(toggleRun')} = {walkSpeed, runSpeed}
          /\ speed(~toggleRun') = speed(toggleRun)
          /\ \A keys \in SUBSET Keys :
                 LET md == moveDirection(keys)
                 IN  /\ play(md, ~toggleRun') = play(md, toggleRun)
                     /\ isMoving(md) => play(md, toggleRun') # play(md, toggleRun)]_vars

\* running has been switched on and off again after a frame at run speed
C15_Witness ==
    /\ characterLoaded
    /\ ~toggleRun
    /\ currentAction = "Run"
    /\ lastFrame = NoFrame

-----------------------------------------------------------------------------
(* The frame loop, the simulation step and the asset loads.                 *)

\* C16: an exception the engine throws inside a frame's simulation step is
\* caught and never escapes to the frame loop: every animate() reaches
\* requestAnimationFrame, so the next frame is always scheduled.
C16_FrameLoopSurvives ==
    /\ lastFrame.stepError # "escaped"
    /\ frameScheduled

\* C17: every update(delta) advances the animation mixer by delta exactly
\* once, with the pointer locked or free, whether or not the character
\* moved or changed clip in that frame.
C17_MixerAdvancesOnce ==
    (lastFrame # NoFrame /\ characterLoaded /\ lastFrame.stepError # "escaped")
        => lastFrame.mixer = <<lastFrame.delta>>

\* a frame with the pointer free and no key held has advanced the mixer
C17_Witness ==
    /\ lastFrame # NoFrame
    /\ characterLoaded
    /\ ~isLocked
    /\ keysPressed = {}
    /\ animCalls = << >>
    /\ lastFrame.mixer = <<MaxDelta>>

\* C18: a frame steps the simulation exactly once when physics
\* initialisation has completed and not at all otherwise; the step uses the
\* fixed internal time step 1/60 s and at most 10 sub-steps.
C18_OneFixedStepPerFrame ==
    lastFrame # NoFrame
        => lastFrame.steps =
               IF physInit = "ok"
               THEN << [dt |-> lastFrame.delta, maxSubSteps |-> 10, fixedTimeStep |-> 60] >>
               ELSE << >>

\* a frame of the bounding-box variant has stepped the initialised engine
C18_Witness ==
    /\ lastFrame # NoFrame
    /\ physicsVariant = "bbox"
    /\ physInit = "ok"
    /\ Len(lastFrame.steps) = 1
    /\ lastFrame.stepError = "none"

\* C19: every asset load has a bounded wait: once the 10-second timer has
\* fired and the character request has had its outcome, success or error,
\* the session is in the all-loaded state, characterLoaded and mapLoaded.
C19_LoadsBounded ==
    (timer = "fired" /\ charReq # "pending") => (characterLoaded /\ mapLoaded)

\* C20: after a map asset has loaded, the collision-surface list holds only
\* meshes whose name contains one of the collision patterns; a mesh whose
\* name matches none of them is not in the list.
C20_OnlyPatternMeshes ==
    (mapModel = "glb" /\ isLoaded)
        => \A i \in 1..Len(collisionMeshes) : shouldHaveCollision(collisionMeshes[i])

-----------------------------------------------------------------------------
(* MapManager's callbacks, the loading interleavings and the queries.       *)

\* C21: once the map is loaded, every callback handed to MapManager.onLoad
\* has been invoked exactly once, whether the map came from loadMap or from
\* generateFallbackMap and however many callbacks were registered.
C21_EveryCallbackOnce ==
    isLoaded => \A cb \in registered : callbackRuns[cb] = 1

\* C22: Shift turns running on: one Shift key press in the initial state of
\* the loaded session leaves a character that, moving with the pointer
\* locked, uses runSpeed and the Run clip.
C22_ShiftTurnsRunOn ==
    [][(InitFrame /\ KeyDownShift) =>
          /\ toggleRun'
          /\ speed(toggleRun') = runSpeed
          /\ \A keys \in SUBSET Keys :
                 isMoving(moveDirection(keys))
                     => play(moveDirection(keys), toggleRun') = "Run"]_vars

\* every asynchronous completion of the session has happened
allSettled ==
    /\ physInit # "pending"
    /\ mapReq # "pending"
    /\ charReq # "pending"
    /\ timer = "fired"

\* C23: whatever the order of the completions of physics init, map load or
\* timeout and character load, with physics initialised and the map loaded
\* the map's collision meshes get their static rigid bodies; at the latest
\* when nothing is pending any more, each collision mesh has a body.
C23_BodiesForLoadedMap ==
    (allSettled /\ isPhysicsInitialized /\ mapLoaded)
        => \A i \in 1..Len(collisionMeshes) : collisionMeshes[i] \in DOMAIN rigidBodies

\* C24: in every interleaving each collision mesh gets at most one static
\* rigid body in the physics world, so the world and the rigidBodies map
\* hold the same bodies.
C24_OneBodyPerMesh ==
    /\ \A i, j \in 1..Len(world) : world[i].mesh = world[j].mesh => i = j
    /\ {world[i] : i \in 1..Len(world)} = {rigidBodies[m] : m \in DOMAIN rigidBodies}

\* C25: once the timeout has installed the fallback map, a later successful
\* completion of the original map load changes nothing: no second map model
\* in the scene, the collision-mesh list still the fallback's, no further
\* rigid bodies, and the player not put back at the start.
C25_LateLoadChangesNothing ==
    [][(fallbackCalls > 0 /\ MapLoaded) =>
          /\ sceneMaps' = sceneMaps
          /\ collisionMeshes' = fallbackCollisionMeshes
          /\ world' = world
          /\ rigidBodies' = rigidBodies
          /\ modelPos' = modelPos
          /\ ctrlPos' = ctrlPos]_vars

\* the right-hand side of a horizontal view direction: forward x up
rightHandOf(dir) == CrossVectors(dir, Vec(Zero, One, Zero))

\* C26: a Locked frame with only D held displaces the rig toward the
\* right-hand side of the camera's view direction, one with only A held
\* toward the left-hand side, by the same length.
C26_StrafeSides ==
    (lastFrame # NoFrame /\ characterLoaded /\ isLocked)
        => LET step == VSub(ctrlPos, lastFrame.from[1])
               right == VScale(rightHandOf(cameraDirection(camYaw, camPitch)),
                               Num(Stride(toggleRun, lastFrame.delta)))
           IN  /\ keysPressed = {"d"} => step = right
               /\ keysPressed = {"a"} => step = VScale(right, Num(-1))

\* C27: when loading the engine fails, init() ends normally with the
\* manager uninitialised for the rest of the session, and every later
\* createStaticRigidBody, createCollisionObjects and update leaves the
\* rigid bodies and the physics world as they were.
C27_FailedInitIsInert ==
    /\ [](physInit = "failed"
            => /\ ~isPhysicsInitialized
               /\ frameScheduled
               /\ world = << >> /\ rigidBodies = << >> /\ ~ghost
               /\ createStaticRigidBody(physState, collisionMeshes, TRUE) = physState
               /\ createCollisionObjects(physState, collisionMeshes) = physState
               /\ physicsSteps(MaxDelta) = << >>
               /\ lastFrame.steps = << >>)
    /\ [][physInit = "failed" => physInit' = "failed"]_vars

\* after a failed init both assets have loaded and a frame has run
C27_Witness ==
    /\ physInit = "failed"
    /\ characterLoaded
    /\ mapLoaded
    /\ Len(collisionMeshes) > 0
    /\ lastFrame # NoFrame
    /\ world = << >>

\* the ghost at position overlaps a body whose mesh is not a floor by name
overlapsNonFloor(position) ==
    \E i \in overlappingObjects(position) : ~IsFloorName(world[i].mesh)

\* C28: in the ghost-object variant the collision check answers true exactly
\* when the ghost overlaps a body that is not marked as floor; it answers
\* false when nothing or only floor bodies overlap, and every body made for
\* a mesh named '...floor...' carries the floor mark.
C28_GhostIgnoresFloor ==
    (physicsVariant = "ghost" /\ isPhysicsInitialized)
        => /\ \A i \in 1..Len(world) : IsFloorName(world[i].mesh) => world[i].floor
           /\ \A p \in {modelPos, feetUnder(ctrlPos), StartFeet} :
                  checkCharacterCollisionGhost(p) <=> overlapsNonFloor(p)
           /\ lastTest = "hit" => overlapsNonFloor(modelPos)
           /\ lastTest = "clear" => ~overlapsNonFloor(modelPos)

\* the test key found the ghost overlapping the floor body only
C28_Witness ==
    /\ physicsVariant = "ghost"
    /\ isPhysicsInitialized
    /\ ghost
    /\ lastTest = "clear"
    /\ overlappingObjects(modelPos) # {}
    /\ \A i \in overlappingObjects(modelPos) : world[i].floor

\* the sphere of that radius at position reaches into the box of mesh id
sphereReachesBox(position, radius, id) ==
    RLess(DistanceSq(position, closestPoint(position, id)), Num(radius * radius))

\* C29: in the bounding-box variant with physics initialised,
\* checkCharacterCollision(position, radius) is true exactly when the sphere
\* comes closer than radius to the bounding box of some registered mesh,
\* whatever the size of the mesh and the distance of its origin.
C29_SphereAgainstEveryBox ==
    (physicsVariant = "bbox" /\ isPhysicsInitialized)
        => \A p \in {modelPos, feetUnder(ctrlPos), StartFeet} :
               checkCharacterCollisionBBox(p, charRadius)
                   <=> \E id \in DOMAIN rigidBodies : sphereReachesBox(p, charRadius, id)

\* C30: generateFallbackMap replaces the collision-mesh list: after every
\* call, whatever was loaded or generated before, the list holds exactly
\* the 14 non-floor meshes of the fallback layout, none named 'floor', and
\* the map counts as loaded.
C30_FallbackReplacesList ==
    [][fallbackCalls' > fallbackCalls =>
          /\ Len(collisionMeshes') = 14
          /\ {collisionMeshes'[i] : i \in 1..Len(collisionMeshes')}
                 = {FallbackChildren[i] : i \in 1..Len(FallbackChildren)} \ {"floor"}
          /\ \A i \in 1..Len(collisionMeshes') :
                 MeshInfo(collisionMeshes'[i]).name \in {"wall", "table", "crate"}
          /\ isLoaded']_vars

\* the fallback map was generated twice, the second time after a map asset
\* had loaded
C30_Witness ==
    /\ fallbackCalls = 2
    /\ sceneMaps = <<"FallbackMap", "glb", "FallbackMap">>
    /\ Len(collisionMeshes) = 14
    /\ isLoaded

=============================================================================
